---- MODULE Spec2Model ----
(***************************************************************************)
(* Model of snps.py: the CYP1A2 SNP pipeline driver.  Text is modelled as  *)
(* sequences of one-character strings, files as sequences of lines.        *)
(***************************************************************************)
EXTENDS Integers, Sequences, FiniteSets, TLC

VARIABLES pc, idx, files, out, anyNonZero, log,
          mpileupExit, report0, src, passes

vars ==
    <<pc, idx, files, out, anyNonZero, log,
      mpileupExit, report0, src, passes>>

---------------------------------------------------------------------------
(* Bounds *)

\* total number of lines the five bcftools view queries may return
MaxRecords ==
    2

\* number of data rows of a report handed to the mapping pass on its own
MaxRows ==
    2

\* number of times the mapping pass is applied to one report
MaxPasses ==
    2

---------------------------------------------------------------------------
(* Characters and fixed strings *)

TAB ==
    "\t"

SP ==
    " "

COMMA ==
    ","

DQ ==
    "\""

COLON ==
    ":"

HASH ==
    "#"

NotFound ==
    <<"n", "o", "t", SP, "f", "o", "u", "n", "d">>

HomRefLabel ==
    <<"H", "o", "m", "o", "z", "y", "g", "o", "u", "s", SP, "R", "e", "f", "e", "r", "e", "n", "c", "e">>

HetLabel ==
    <<"H", "e", "t", "e", "r", "o", "z", "y", "g", "o", "u", "s">>

HomAltLabel ==
    <<"H", "o", "m", "o", "z", "y", "g", "o", "u", "s", SP, "A", "l", "t", "e", "r", "n", "a", "t", "e">>

Code00 ==
    <<"0", "/", "0">>

Code01 ==
    <<"0", "/", "1">>

Code11 ==
    <<"1", "/", "1">>

CodePhased ==
    <<"0", "|", "1">>

CodeMulti ==
    <<"1", "/", "2">>

LineHeader ==
    <<"#", "C", "H", "R", "O", "M", TAB, "P", "O", "S">>

LineExample ==
    <<"c", "h", "r", "1", "5", TAB, "7", "4", "7", "4", "9", "5", "7", "6", TAB, ".", TAB, "A", TAB, "G", TAB, "5", "0", TAB, "P", "A", "S", "S", TAB, "A", "N", "N", "=", "x", "y", "z", TAB, "G", "T", ":", "D", "P", TAB, "0", "/", "1", ":", "3", "0">>

LineHomAlt ==
    <<"c", "h", "r", "1", "5", TAB, "7", TAB, ".", TAB, "C", TAB, "T", TAB, "9", TAB, "P", "A", "S", "S", TAB, "A", "N", "N", "=", DQ, "T", COMMA, "x", DQ, TAB, "G", "T", TAB, "1", "/", "1">>

LineShort ==
    <<"c", "h", "r", "1", "5", TAB, "7", TAB, ".", TAB, "A", TAB, "G", TAB, "5", "0", TAB, "P", "A", "S", "S", TAB, "A", "N", "N", "=", "x", "y", "z", TAB, "G", "T", ":", "D", "P">>

LineEmpty ==
    <<>>

LineTrailing ==
    <<"c", "h", "r", "1", "5", TAB, "7", TAB, ".", TAB, "A", TAB, "G", TAB, "5", "0", TAB, "P", "A", "S", "S", TAB, "A", "N", "N", "=", "x", "y", "z", TAB, "G", "T", TAB>>

LineLeading ==
    <<TAB, "c", "h", "r", "1", "5", TAB, "7", TAB, ".", TAB, "G", TAB, "A", TAB, "9", TAB, ".", TAB, "D", "P", "=", "4", TAB, "G", "T", ":", "D", "P", TAB, "0", "/", "0", ":", "4", TAB, "0", "/", "1", ":", "2">>

snps ==
    << [id |-> <<"r", "s", "7", "6", "2", "5", "5", "1">>,
        position |-> <<"c", "h", "r", "1", "5", ":", "7", "4", "7", "4", "9", "5", "7", "6">>],
       [id |-> <<"r", "s", "2", "0", "6", "9", "5", "1", "4">>,
        position |-> <<"c", "h", "r", "1", "5", ":", "7", "4", "7", "5", "4", "8", "2", "3">>],
       [id |-> <<"r", "s", "2", "4", "7", "2", "3", "0", "0">>,
        position |-> <<"c", "h", "r", "1", "5", ":", "7", "4", "7", "4", "9", "2", "3", "4">>],
       [id |-> <<"r", "s", "2", "4", "7", "2", "3", "0", "4">>,
        position |-> <<"c", "h", "r", "1", "5", ":", "7", "4", "7", "5", "1", "8", "9", "7">>],
       [id |-> <<"r", "s", "2", "4", "7", "0", "8", "9", "3">>,
        position |-> <<"c", "h", "r", "1", "5", ":", "7", "4", "7", "4", "5", "8", "7", "9">>] >>

\* f"temp_{snp_id}.txt"
TempFile(k) ==
    << "temp_rs762551.txt", "temp_rs2069514.txt", "temp_rs2472300.txt",
       "temp_rs2472304.txt", "temp_rs2470893.txt" >>[k]

Header ==
    << <<"S", "N", "P">>,
       <<"P", "o", "s", "i", "t", "i", "o", "n">>,
       <<"R", "e", "f", "e", "r", "e", "n", "c", "e">>,
       <<"A", "l", "t", "e", "r", "n", "a", "t", "i", "v", "e">>,
       <<"G", "e", "n", "o", "t", "y", "p", "e">>,
       <<"A", "n", "n", "o", "t", "a", "t", "i", "o", "n">> >>

---------------------------------------------------------------------------
(* String helpers (Python str methods used by main) *)

IsSpace(c) ==
    c \in {SP, TAB}

\* first position from i on that holds no whitespace (Len(s) + 1 if none)
RECURSIVE LStrip(_, _)
LStrip(s, i) ==
    IF i <= Len(s) /\ IsSpace(s[i]) THEN LStrip(s, i + 1) ELSE i

\* last position up to j that holds no whitespace (0 if none)
RECURSIVE RStrip(_, _)
RStrip(s, j) ==
    IF j >= 1 /\ IsSpace(s[j]) THEN RStrip(s, j - 1) ELSE j

\* str.strip(): leading and trailing whitespace (tabs included) removed
Strip(s) ==
    SubSeq(s, LStrip(s, 1), RStrip(s, Len(s)))

\* first position from i on that holds sep (Len(s) + 1 if none)
RECURSIVE NextSep(_, _, _)
NextSep(s, sep, i) ==
    IF i > Len(s) \/ s[i] = sep THEN i ELSE NextSep(s, sep, i + 1)

\* the fields of s from position i on
RECURSIVE SplitAcc(_, _, _, _)
SplitAcc(s, sep, i, acc) ==
    LET j == NextSep(s, sep, i) IN
    IF j > Len(s) THEN Append(acc, SubSeq(s, i, Len(s)))
    ELSE SplitAcc(s, sep, j + 1, Append(acc, SubSeq(s, i, j - 1)))

\* str.split(sep): always at least one field, empty fields kept
Split(s, sep) ==
    SplitAcc(s, sep, 1, <<>>)

\* parts[9].split(":")[0]
BeforeColon(s) ==
    Split(s, COLON)[1]

---------------------------------------------------------------------------
(* csv.writer / csv.reader, excel dialect, one record per line *)

NeedsQuote(f) ==
    \E k \in 1..Len(f) : f[k] \in {COMMA, DQ}

RECURSIVE DoubleQuotes(_)
DoubleQuotes(f) ==
    IF f = <<>> THEN <<>>
    ELSE IF Head(f) = DQ THEN <<DQ, DQ>> \o DoubleQuotes(Tail(f))
    ELSE <<Head(f)>> \o DoubleQuotes(Tail(f))

CsvField(f) ==
    IF NeedsQuote(f) THEN <<DQ>> \o DoubleQuotes(f) \o <<DQ>> ELSE f

RECURSIVE CsvJoin(_)
CsvJoin(row) ==
    IF row = <<>> THEN <<>>
    ELSE IF Len(row) = 1 THEN CsvField(row[1])
    ELSE CsvField(row[1]) \o <<COMMA>> \o CsvJoin(Tail(row))

\* writer.writerow(row): the text of one record, line terminator left out
WriteRow(row) ==
    IF Len(row) = 1 /\ row[1] = <<>> THEN <<DQ, DQ>> ELSE CsvJoin(row)

\* csv.reader's state machine.  CsvScan is START_FIELD at position i;
\* CsvInField is IN_FIELD with cur read so far: every character up to the
\* next delimiter belongs to the field; CsvQuoted is IN_QUOTED_FIELD, where
\* a quote followed by a quote is one quote, a quote followed by the
\* delimiter or the end of the line closes the field, and a quote followed
\* by anything else goes on as an unquoted field.
RECURSIVE CsvScan(_, _, _), CsvInField(_, _, _, _), CsvQuoted(_, _, _, _)
CsvScan(s, i, acc) ==
    IF i > Len(s) THEN Append(acc, <<>>)
    ELSE IF s[i] = DQ THEN CsvQuoted(s, i + 1, <<>>, acc)
    ELSE CsvInField(s, i, <<>>, acc)

CsvInField(s, i, cur, acc) ==
    LET j == NextSep(s, COMMA, i)
        field == cur \o SubSeq(s, i, j - 1)
    IN  IF j > Len(s) THEN Append(acc, field)
        ELSE CsvScan(s, j + 1, Append(acc, field))

CsvQuoted(s, i, cur, acc) ==
    IF i > Len(s) THEN Append(acc, cur)
    ELSE IF s[i] # DQ THEN CsvQuoted(s, i + 1, Append(cur, s[i]), acc)
    ELSE IF i = Len(s) THEN Append(acc, cur)
    ELSE IF s[i + 1] = DQ THEN CsvQuoted(s, i + 2, Append(cur, DQ), acc)
    ELSE IF s[i + 1] = COMMA THEN CsvScan(s, i + 2, Append(acc, cur))
    ELSE CsvInField(s, i + 1, cur, acc)

\* one record of csv.reader: an empty line is the empty row
ReadRow(line) ==
    IF line = <<>> THEN <<>> ELSE CsvScan(line, 1, <<>>)

ReadRows(lines) ==
    [k \in 1..Len(lines) |-> ReadRow(lines[k])]

WriteRows(rows) ==
    [k \in 1..Len(rows) |-> WriteRow(rows[k])]

---------------------------------------------------------------------------
(* Working directory *)

ReportFile ==
    "snp_report.csv"

BcftoolsTemp ==
    "temp_bcftools_output.txt"

SnpIndex ==
    1..Len(snps)

TempFiles ==
    {TempFile(k) : k \in SnpIndex} \cup {BcftoolsTemp}

FileNames ==
    TempFiles \cup {ReportFile}

NoFile ==
    [exists |-> FALSE, lines |-> <<>>]

FileOf(ls) ==
    [exists |-> TRUE, lines |-> ls]

\* os.path.getsize: every line carries its newline
RECURSIVE GetSize(_)
GetSize(ls) ==
    IF ls = <<>> THEN 0 ELSE Len(Head(ls)) + 1 + GetSize(Tail(ls))

\* if os.path.exists(name): os.remove(name)
RemoveIfExists(fs, names) ==
    [n \in FileNames |-> IF n \in names THEN NoFile ELSE fs[n]]

\* grep -v '^#' temp_bcftools_output.txt
GrepV(ls) ==
    SelectSeq(ls, LAMBDA l : ~(l # <<>> /\ Head(l) = HASH))

\* grep exits 0 when it selected a line, 1 when it selected none
GrepStatus(ls) ==
    IF GrepV(ls) # <<>> THEN 0 ELSE 1

\* status of `a | b` under sh -c: the status of the last command
PipeStatus(codes) ==
    codes[Len(codes)]

ExitCodes ==
    {0, 1}

NoExit ==
    0 - 1

---------------------------------------------------------------------------
(* Per-SNP record parsing, lines 102-122 *)

\* variant: the position cell left out of the "not found" row
NotFoundRowNoPosition(k) ==
    <<snps[k].id, NotFound, NotFound, NotFound, NotFound>>

NotFoundRow(k) ==
    <<snps[k].id, snps[k].position, NotFound, NotFound, NotFound, NotFound>>

\* variant: REF and ALT taken from each other's column
ParseRecordSwapped(k, content) ==
    IF GetSize(content) > 0 THEN
        LET line == Strip(Head(content)) IN
        IF line # <<>> THEN
            LET parts == Split(line, TAB) IN
            IF Len(parts) >= 10 THEN
                <<snps[k].id, snps[k].position,
                  parts[5], parts[4], BeforeColon(parts[10]), parts[8]>>
            ELSE NotFoundRow(k)
        ELSE NotFoundRow(k)
    ELSE NotFoundRow(k)

\* variant: a malformed line reported with blank cells
ParseRecordBlank(k, content) ==
    IF GetSize(content) > 0 THEN
        LET line == Strip(Head(content)) IN
        IF line # <<>> THEN
            LET parts == Split(line, TAB) IN
            IF Len(parts) >= 10 THEN
                <<snps[k].id, snps[k].position,
                  parts[4], parts[5], BeforeColon(parts[10]), parts[8]>>
            ELSE <<snps[k].id, snps[k].position, <<>>, <<>>, <<>>, <<>> >>
        ELSE NotFoundRow(k)
    ELSE NotFoundRow(k)

\* variant: the last line of the file read instead of the first
ParseRecordLast(k, content) ==
    IF GetSize(content) > 0 THEN
        LET line == Strip(content[Len(content)]) IN
        IF line # <<>> THEN
            LET parts == Split(line, TAB) IN
            IF Len(parts) >= 10 THEN
                <<snps[k].id, snps[k].position,
                  parts[4], parts[5], BeforeColon(parts[10]), parts[8]>>
            ELSE NotFoundRow(k)
        ELSE NotFoundRow(k)
    ELSE NotFoundRow(k)

ParseRecord(k, content) ==
    IF GetSize(content) > 0 THEN
        LET line == Strip(Head(content)) IN
        IF line # <<>> THEN
            LET parts == Split(line, TAB) IN
            IF Len(parts) >= 10 THEN
                <<snps[k].id, snps[k].position,
                  parts[4], parts[5], BeforeColon(parts[10]), parts[8]>>
            ELSE NotFoundRow(k)
        ELSE NotFoundRow(k)
    ELSE NotFoundRow(k)

---------------------------------------------------------------------------
(* Genotype mapping pass, lines 137-156 *)

\* variant: the phased heterozygous code mapped as well
MapCodePhased(g) ==
    IF g = Code00 THEN HomRefLabel
    ELSE IF g = Code01 \/ g = CodePhased THEN HetLabel
    ELSE IF g = Code11 THEN HomAltLabel
    ELSE g

MapCode(g) ==
    IF g = Code00 THEN HomRefLabel
    ELSE IF g = Code01 THEN HetLabel
    ELSE IF g = Code11 THEN HomAltLabel
    ELSE g

MapRow(row) ==
    IF Len(row) >= 5 THEN [row EXCEPT ![5] = MapCode(row[5])] ELSE row

\* variant: the mapped rows appended to the report instead of replacing it
MappedReportAppend(ls) ==
    LET all    == ReadRows(ls)
        header == Head(all)
        rows   == [k \in 1..(Len(all) - 1) |-> MapRow(all[k + 1])]
    IN  ls \o WriteRows(<<header>> \o rows)

\* read the report, map every row after the header, write it back
MappedReport(ls) ==
    LET all    == ReadRows(ls)
        header == Head(all)
        rows   == [k \in 1..(Len(all) - 1) |-> MapRow(all[k + 1])]
    IN  WriteRows(<<header>> \o rows)

---------------------------------------------------------------------------
(* Inputs *)

Lines ==
    {LineHeader, LineExample, LineHomAlt,
     LineShort, LineEmpty, LineTrailing, LineLeading}

\* what one bcftools view query may leave in its output file
Outputs(n) ==
    UNION {[1..m -> Lines] : m \in 0..n}

RECURSIVE TotalLines(_)
TotalLines(os) ==
    IF os = <<>> THEN 0 ELSE Len(Head(os)) + TotalLines(Tail(os))

\* report and temporary files left behind by an interrupted earlier run
OldReport ==
    WriteRows(<<Header, NotFoundRow(1)>>)

FreshDir ==
    [n \in FileNames |-> NoFile]

AfterCrash ==
    [n \in FileNames |->
        IF n = ReportFile THEN FileOf(OldReport) ELSE FileOf(<<LineShort>>)]

---------------------------------------------------------------------------
(* main() *)

Init ==
    /\ pc = "index_cram"
    /\ idx = 1
    /\ files \in {FreshDir, AfterCrash}
    /\ report0 = files[ReportFile]
    /\ out = <<>>
    /\ anyNonZero = FALSE
    /\ log = <<>>
    /\ mpileupExit = NoExit
    /\ src = <<>>
    /\ passes = 0

\* variant: check=False, the exit status ignored
RunUnchecked(cmd, next, rc) ==
    /\ log' = Append(log, [cmd |-> cmd, rc |-> rc])
    /\ pc' = next

\* subprocess.run(cmd, shell=True, check=True)
RunChecked(cmd, next, rc) ==
    /\ log' = Append(log, [cmd |-> cmd, rc |-> rc])
    /\ pc' = IF rc = 0 THEN next ELSE "aborted"

SetupStep(here, next) ==
    /\ pc = here
    /\ \E rc \in ExitCodes : RunChecked(here, next, rc)
    /\ UNCHANGED <<idx, files, out, anyNonZero,
                   mpileupExit, report0, src, passes>>

IndexCram ==
    SetupStep("index_cram", "extract_region")

ExtractRegion ==
    SetupStep("extract_region", "index_bam")

IndexBam ==
    SetupStep("index_bam", "call_variants")

CallVariants ==
    /\ pc = "call_variants"
    /\ \E m \in ExitCodes, c \in ExitCodes :
          /\ mpileupExit' = m
          /\ RunChecked("call_variants", "annotate", PipeStatus(<<m, c>>))
    /\ UNCHANGED <<idx, files, out, anyNonZero,
                   report0, src, passes>>

Annotate ==
    SetupStep("annotate", "bgzip")

Bgzip ==
    SetupStep("bgzip", "tabix")

Tabix ==
    SetupStep("tabix", "open_report")

\* open("snp_report.csv", "w") and the header row
OpenReport ==
    /\ pc = "open_report"
    /\ files' = [files EXCEPT ![ReportFile] = FileOf(<<WriteRow(Header)>>)]
    /\ idx' = 1
    /\ pc' = "query"
    /\ UNCHANGED <<out, anyNonZero, log, mpileupExit,
                   report0, src, passes>>

\* variant: the query run with check=True
SnpQueryChecked ==
    /\ pc = "query"
    /\ \E rc \in ExitCodes, o \in Outputs(MaxRecords - TotalLines(out)) :
          /\ files' = [files EXCEPT ![BcftoolsTemp] = FileOf(o)]
          /\ out' = Append(out, o)
          /\ anyNonZero' = (anyNonZero \/ rc # 0)
          /\ pc' = IF rc = 0 THEN "grep" ELSE "aborted"
    /\ UNCHANGED <<idx, log, mpileupExit, report0, src, passes>>

\* bcftools view ... > temp_bcftools_output.txt, check=False
SnpQuery ==
    /\ pc = "query"
    /\ \E rc \in ExitCodes, o \in Outputs(MaxRecords - TotalLines(out)) :
          /\ files' = [files EXCEPT ![BcftoolsTemp] = FileOf(o)]
          /\ out' = Append(out, o)
          /\ anyNonZero' = (anyNonZero \/ rc # 0)
    /\ pc' = "grep"
    /\ UNCHANGED <<idx, log, mpileupExit, report0, src, passes>>

\* grep -v '^#' temp_bcftools_output.txt > temp_<id>.txt, check=False
SnpGrep ==
    /\ pc = "grep"
    /\ files' = [files EXCEPT ![TempFile(idx)] =
                    FileOf(GrepV(files[BcftoolsTemp].lines))]
    /\ anyNonZero' = (anyNonZero \/ GrepStatus(files[BcftoolsTemp].lines) # 0)
    /\ pc' = "remove"
    /\ UNCHANGED <<idx, out, log, mpileupExit, report0, src, passes>>

SnpRemove ==
    /\ pc = "remove"
    /\ files' = RemoveIfExists(files, {BcftoolsTemp})
    /\ pc' = "parse"
    /\ UNCHANGED <<idx, out, anyNonZero, log, mpileupExit,
                   report0, src, passes>>

SnpParse ==
    /\ pc = "parse"
    /\ LET row == ParseRecord(idx, files[TempFile(idx)].lines) IN
       files' = [files EXCEPT ![ReportFile] =
                    FileOf(Append(files[ReportFile].lines, WriteRow(row)))]
    /\ IF idx < Len(snps)
          THEN idx' = idx + 1 /\ pc' = "query"
          ELSE idx' = idx /\ pc' = "cleanup"
    /\ UNCHANGED <<out, anyNonZero, log, mpileupExit, report0, src, passes>>

\* variant: the loop over the per-SNP files left out
CleanupOnlyIntermediate ==
    /\ pc = "cleanup"
    /\ files' = RemoveIfExists(files, {BcftoolsTemp})
    /\ pc' = "map"
    /\ UNCHANGED <<idx, out, anyNonZero, log, mpileupExit,
                   report0, src, passes>>

Cleanup ==
    /\ pc = "cleanup"
    /\ files' = RemoveIfExists(files, TempFiles)
    /\ pc' = "map"
    /\ UNCHANGED <<idx, out, anyNonZero, log, mpileupExit,
                   report0, src, passes>>

MapGenotypes ==
    /\ pc = "map"
    /\ files' = [files EXCEPT ![ReportFile] =
                    FileOf(MappedReport(files[ReportFile].lines))]
    /\ pc' = "done"
    /\ UNCHANGED <<idx, out, anyNonZero, log, mpileupExit,
                   report0, src, passes>>

Next ==
    \/ IndexCram
    \/ ExtractRegion
    \/ IndexBam
    \/ CallVariants
    \/ Annotate
    \/ Bgzip
    \/ Tabix
    \/ OpenReport
    \/ SnpQuery
    \/ SnpGrep
    \/ SnpRemove
    \/ SnpParse
    \/ Cleanup
    \/ MapGenotypes

Spec ==
    Init /\ [][Next]_vars

---------------------------------------------------------------------------
(* The mapping pass on its own: reports drawn from bounded sets *)

GenoCells ==
    {Code00, Code01, Code11, CodePhased, CodeMulti, NotFound,
     HomRefLabel, HetLabel, HomAltLabel}

PassRows ==
    {<<snps[1].id, snps[1].position, r, <<"G">>, g, <<"A", "=", DQ, COMMA>> >> :
        r \in {<<"A">>, Code00}, g \in GenoCells}
    \cup {<<snps[1].id, snps[1].position, Code01, Code00>>}

InitPass ==
    /\ pc = "pass"
    /\ idx = 1
    /\ src \in UNION {[1..m -> PassRows] : m \in 0..MaxRows}
    /\ files = [FreshDir EXCEPT ![ReportFile] =
                   FileOf(WriteRows(<<Header>> \o src))]
    /\ report0 = files[ReportFile]
    /\ out = <<>>
    /\ anyNonZero = FALSE
    /\ log = <<>>
    /\ mpileupExit = NoExit
    /\ passes = 0

MappingPass ==
    /\ pc = "pass"
    /\ passes < MaxPasses
    /\ files' = [files EXCEPT ![ReportFile] =
                    FileOf(MappedReport(files[ReportFile].lines))]
    /\ passes' = passes + 1
    /\ UNCHANGED <<pc, idx, out, anyNonZero, log,
                   mpileupExit, report0, src>>

NextPass ==
    MappingPass

SpecPass ==
    InitPass /\ [][NextPass]_vars

---------------------------------------------------------------------------
(* Properties *)

\* the records of the report as a csv reader sees them
ReportRows ==
    ReadRows(files[ReportFile].lines)

\* the report row of the k-th SNP
RowOf(k) ==
    ReadRow(files[ReportFile].lines[k + 1])

IsDataLine(l) ==
    l = <<>> \/ l[1] # HASH

\* positions of the non-header lines of a query output
DataIdx(o) ==
    {j \in 1..Len(o) : IsDataLine(o[j])}

FirstData(o) ==
    o[CHOOSE j \in DataIdx(o) : \A h \in DataIdx(o) : j <= h]

LabelOf(g) ==
    CASE g = Code00 -> HomRefLabel
      [] g = Code01 -> HetLabel
      [] g = Code11 -> HomAltLabel
      [] OTHER -> g

ExampleRow ==
    <<snps[1].id, snps[1].position, <<"A">>, <<"G">>, HetLabel,
      <<"A", "N", "N", "=", "x", "y", "z">> >>

\* C1: a completed run leaves a report of the header row followed by
\* exactly five rows, one per SNP id in the declared order, each with that
\* SNP's position in column 2, whatever the per-SNP queries returned.
C1_FiveRowsInOrder ==
    pc = "done" =>
        /\ files[ReportFile].exists
        /\ Len(files[ReportFile].lines) = Len(snps) + 1
        /\ ReadRow(files[ReportFile].lines[1]) = Header
        /\ \A k \in SnpIndex :
              LET row == RowOf(k) IN
              /\ Len(row) = 6
              /\ row[1] = snps[k].id
              /\ row[2] = snps[k].position

C1_Witness ==
    /\ pc = "done"
    /\ anyNonZero
    /\ \E a \in SnpIndex, b \in SnpIndex :
          out[a] = <<LineHeader>> /\ out[b] = <<LineShort>>

\* C2 (as claimed): whenever some data line of a query output has at least
\* 10 tab-separated fields, the SNP's row carries fields 4, 5, 8 and the
\* mapped genotype prefix of field 10 of that line.
C2_AnyDataLine ==
    pc = "done" =>
        \A k \in SnpIndex : \A j \in DataIdx(out[k]) :
            LET f == Split(out[k][j], TAB) IN
            Len(f) >= 10 =>
                RowOf(k) = <<snps[k].id, snps[k].position, f[4], f[5],
                             LabelOf(BeforeColon(f[10])), f[8]>>

\* C2 (amended): when the first data line of a query output, with leading
\* and trailing whitespace removed, has at least 10 tab-separated fields,
\* the SNP's row carries fields 4, 5, 8 of that stripped line and the
\* mapped genotype prefix of its field 10.
C2_FirstStrippedLine ==
    pc = "done" =>
        \A k \in SnpIndex :
            DataIdx(out[k]) # {} =>
                LET f == Split(Strip(FirstData(out[k])), TAB) IN
                Len(f) >= 10 =>
                    RowOf(k) = <<snps[k].id, snps[k].position, f[4], f[5],
                                 LabelOf(BeforeColon(f[10])), f[8]>>

C2_Witness ==
    /\ pc = "done"
    /\ out[1] = <<LineHeader, LineExample>>
    /\ RowOf(1) = ExampleRow

\* C3: the mapping pass rewrites the genotype cell 0/0, 0/1, 1/1 to its
\* label and leaves every other genotype value, every other column and
\* every row without a genotype column as it was, row by row.
C3_MappingTable ==
    passes = 1 =>
        /\ Len(ReportRows) = Len(src) + 1
        /\ ReportRows[1] = Header
        /\ \A k \in 1..Len(src) :
              LET before == src[k]
                  after  == ReportRows[k + 1]
              IN  /\ Len(after) = Len(before)
                  /\ \A c \in 1..Len(before) : c # 5 => after[c] = before[c]
                  /\ Len(before) >= 5 =>
                        /\ before[5] = Code00 => after[5] = HomRefLabel
                        /\ before[5] = Code01 => after[5] = HetLabel
                        /\ before[5] = Code11 => after[5] = HomAltLabel
                        /\ before[5] \notin {Code00, Code01, Code11} =>
                              after[5] = before[5]

C3_Witness ==
    /\ passes = 1
    /\ Len(src) = 2
    /\ Len(src[1]) = 6
    /\ Len(src[2]) = 6
    /\ src[1][5] = Code01
    /\ src[2][5] = CodePhased
    /\ src[1][3] = Code00
    /\ ReportRows[2][5] = HetLabel
    /\ ReportRows[3][5] = CodePhased

\* C4 (as claimed): a query with no data line, an empty first data line or
\* a first data line of fewer than 10 fields gives the row of five
\* "not found" cells.
C4_FiveNotFound ==
    pc = "done" =>
        \A k \in SnpIndex :
            (\/ DataIdx(out[k]) = {}
             \/ FirstData(out[k]) = <<>>
             \/ Len(Split(FirstData(out[k]), TAB)) < 10)
            => RowOf(k) = <<NotFound, NotFound, NotFound, NotFound, NotFound>>

\* C4 (amended): a query with no data line, an empty first data line or a
\* first data line of fewer than 10 fields gives the row of the SNP id,
\* its position and four "not found" cells; absent and malformed input
\* give the same row.
C4_NotFoundRow ==
    pc = "done" =>
        \A k \in SnpIndex :
            (\/ DataIdx(out[k]) = {}
             \/ FirstData(out[k]) = <<>>
             \/ Len(Split(FirstData(out[k]), TAB)) < 10)
            => RowOf(k) = <<snps[k].id, snps[k].position,
                            NotFound, NotFound, NotFound, NotFound>>

C4_Witness ==
    /\ pc = "done"
    /\ out[1] = <<LineShort>>
    /\ out[2] = <<LineEmpty>>
    /\ out[3] = <<>>
    /\ \A k \in 1..3 : \A c \in 3..6 : RowOf(k)[c] = NotFound

\* C5: once the mapping pass has been applied to a report, applying it
\* again leaves the report as it is.
C5_Idempotent ==
    [][passes >= 1 => files' = files]_vars

C5_Witness ==
    /\ passes = 2
    /\ Len(src) = 2
    /\ Len(src[1]) = 6
    /\ Len(src[2]) = 6
    /\ src[1][5] = Code11
    /\ src[2][5] = HomRefLabel
    /\ ReportRows[2][5] = HomAltLabel
    /\ ReportRows[3][5] = HomRefLabel

\* C6: a non-zero exit of a setup invocation is the last invocation of the
\* run: the run is aborted, no query has run and snp_report.csv is as it
\* was before the run.
C6_SetupFailureAborts ==
    \A j \in 1..Len(log) :
        log[j].rc # 0 =>
            /\ j = Len(log)
            /\ pc = "aborted"
            /\ out = <<>>
            /\ files[ReportFile] = report0

C6_Witness ==
    /\ pc = "aborted"
    /\ Len(log) = 5
    /\ log[5].cmd = "annotate"
    /\ report0.exists

\* C7: a non-zero exit of a per-SNP query or filter never aborts the run:
\* the SNP's row is written, the later SNPs are processed and the run
\* goes on to cleanup and the mapping pass.
C7_QueryFailureTolerated ==
    anyNonZero =>
        /\ pc \in {"grep", "remove", "parse", "query", "cleanup", "map", "done"}
        /\ pc \in {"grep", "remove", "parse"} =>
              Len(out) = idx /\ Len(files[ReportFile].lines) = idx
        /\ pc = "query" =>
              Len(out) = idx - 1 /\ Len(files[ReportFile].lines) = idx
        /\ pc \in {"cleanup", "map", "done"} =>
              /\ Len(out) = Len(snps)
              /\ Len(files[ReportFile].lines) = Len(snps) + 1

C7_Witness ==
    /\ pc = "done"
    /\ anyNonZero
    /\ out[1] = <<>>
    /\ out[5] = <<LineExample>>
    /\ RowOf(5)[5] = HetLabel

\* C8: a completed run leaves none of its temporary files behind, and
\* temp_bcftools_output.txt is gone before a SNP's result is parsed.
C8_NoTempFilesLeft ==
    /\ pc \in {"map", "done"} => \A n \in TempFiles : ~files[n].exists
    /\ pc = "parse" => ~files[BcftoolsTemp].exists

C8_Witness ==
    /\ pc = "done"
    /\ report0.exists
    /\ \E k \in SnpIndex : out[k] = <<LineExample>>

\* C9: a non-zero exit of bcftools mpileup aborts the run even when the
\* bcftools call stage of the same pipeline exits zero.
C9_MpileupFailureAborts ==
    (mpileupExit # NoExit /\ mpileupExit # 0) => pc = "aborted"

\* C10: the row of a SNP is decided by the first non-header line of the
\* query output alone: it is the row the same query gives with every
\* later line dropped, and it is "not found" when that first line has
\* fewer than 10 fields, whatever follows.
C10_FirstLineDecides ==
    pc = "done" =>
        \A k \in SnpIndex :
            DataIdx(out[k]) # {} =>
                /\ RowOf(k) = MapRow(ParseRecord(k, <<FirstData(out[k])>>))
                /\ Len(Split(FirstData(out[k]), TAB)) < 10 =>
                      \A c \in 3..6 : RowOf(k)[c] = NotFound

C10_Witness ==
    /\ pc = "done"
    /\ \E k \in SnpIndex :
          /\ out[k] = <<LineShort, LineExample>>
          /\ \A c \in 3..6 : RowOf(k)[c] = NotFound

====
